---- MODULE Spec2Model ----
(***************************************************************************)
(* Model of asc (absent-slacker-catchup): Message.format and               *)
(* parse_message_from_tr of asc/message.py, and the cmd_fetch pipeline of  *)
(* asc/cli.py (get_messages, generate_chat, generate_summary,              *)
(* generate_speech_summary, generate_html_summary).                        *)
(*                                                                         *)
(* A Python str is a sequence of one-character strings.  None is the       *)
(* empty tuple of an option: <<>> is None, <<v>> is the value v.           *)
(***************************************************************************)
EXTENDS Integers, Sequences, FiniteSets, TLC

VARIABLES
    \* ---- Message.format called on its own (SpecFormat)
    fmtSelf,        \* the record format is called on
    fmtPrev,        \* prev_message: <<>> (None) or <<record>>
    fmtNicks,       \* the nicknames argument, a set of strings
    fmtVerbose,     \* the verbose argument
    fmtCalls,       \* the locals at the return of each call made so far
    \* ---- parse_message_from_tr called on its own (SpecParse)
    parseRow,       \* the <tr> element
    parseOut,       \* <<>> before the call, <<outcome>> after it
    \* ---- cmd_fetch (Spec)
    args,           \* the parsed command line
    cutoff_time,    \* get_messages: now_utc - hours
    pc,             \* position in cmd_fetch
    exc,            \* the exception cmd_fetch ended with, "" if none
    day,            \* get_messages: the day to fetch next
    fetches,        \* every fetch_meeting_log call so far: day, status, page
    messages,       \* context.messages
    nicknames,      \* context.nicknames
    order,          \* the order in which context.nicknames is iterated
    prev_message,   \* generate_chat: prev_message
    idx,            \* generate_chat: index of the next message of the loop
    chat,           \* context.chat
    chat_file,      \* what was written to context.chat_file
    summary,        \* context.summary
    wav,            \* whether the wav file was written
    html            \* the date of the heading written to the html file, <<>> if none

fmtVars == <<fmtSelf, fmtPrev, fmtNicks, fmtVerbose, fmtCalls>>
parseVars == <<parseRow, parseOut>>
fetchVars == <<args, cutoff_time, pc, exc, day, fetches, messages, nicknames, order,
               prev_message, idx, chat, chat_file, summary, wav, html>>
vars == <<fmtVars, parseVars, fetchVars>>

----------------------------------------------------------------------------
(* Bounds of the model *)

\* longest message text drawn for a lone Message.format call
MaxTextLen == 5

\* days, from the first one fetched, for which the archive may serve a page
MaxDays == 2

\* rows the archive serves in all, over all its pages
MaxRows == 2

----------------------------------------------------------------------------
(* Python str *)

\* str.isspace of one character, the characters str.strip() removes
IsSpace(c) == c \in {" ", "\n"}

\* s.startswith(p)
StartsWith(s, p) == Len(p) <= Len(s) /\ SubSeq(s, 1, Len(p)) = p

\* s[n:]
DropFirst(s, n) == SubSeq(s, n + 1, Len(s))

\* s.strip()
Strip(s) ==
    LET keep == {i \in 1..Len(s) : ~IsSpace(s[i])}
        lo == CHOOSE i \in keep : \A j \in keep : i <= j
        hi == CHOOSE i \in keep : \A j \in keep : j <= i
    IN  IF keep = {} THEN <<>> ELSE SubSeq(s, lo, hi)

\* s[1:e]
SliceFrom1(s, e) == SubSeq(s, 2, IF e < Len(s) THEN e ELSE Len(s))

----------------------------------------------------------------------------
(* datetime.  A time is a number of hours since midnight of 2024-01-01; the *)
(* model's times lie in the first nine days of that month.                  *)

\* hours of datetime.timedelta(days=1)
HoursPerDay == 24

\* cutoff_time.replace(hour=0, minute=0, second=0, microsecond=0)
Midnight(t) == t - (t % HoursPerDay)

\* a number below 100 as two decimal digits
TwoDigits(n) == <<ToString(n \div 10), ToString(n % 10)>>

\* the date and time of t as datetime prints them, sep between the two
DateTimeString(t, sep) ==
    <<"2", "0", "2", "4", "-", "0", "1", "-">> \o TwoDigits(t \div HoursPerDay + 1)
        \o <<sep>> \o TwoDigits(t % HoursPerDay) \o <<":", "0", "0", ":", "0", "0">>

\* str(datetime)
StrTime(t) == DateTimeString(t, " ")

\* the times of the model
ModelTimes == 0..(9 * HoursPerDay - 1)

\* datetime.datetime.fromisoformat(s): <<t>>, or <<>> when it raises ValueError
FromIsoFormat(s) ==
    LET ts == {t \in ModelTimes : s = DateTimeString(t, "T")}
    IN  IF ts = {} THEN <<>> ELSE <<CHOOSE t \in ts : TRUE>>

----------------------------------------------------------------------------
(* asc/message.py: Message *)

\* Message.__init__
Message(timestamp, nickname, text) ==
    [timestamp |-> timestamp, nickname |-> nickname, text |-> text]

\* the default context line of format
SaidContext(nickname) ==
    <<"\n">> \o nickname \o <<" ", "s", "a", "i", "d", ":", "\n">>

\* the context line of a reply
RepliedContext(nickname, replied) ==
    <<"\n">> \o nickname
        \o <<" ", "r", "e", "p", "l", "i", "e", "d", " ", "t", "o", " ">>
        \o replied \o <<":", "\n">>

\* format with the timestamp prefix built whatever the verbose flag says
TimestampAlways(self, verbose) ==
    <<"\n">> \o StrTime(self.timestamp)

\* format: the timestamp prefix chosen from the verbose flag
VerboseTimestamp(self, verbose) ==
    IF verbose THEN <<"\n">> \o StrTime(self.timestamp) ELSE <<>>

\* format: "prev_message and prev_message.nickname == self.nickname"
SameSpeaker(self, prev) ==
    prev # <<>> /\ prev[1].nickname = self.nickname

\* format: the nickname the for loop breaks on, scanning the set in the order
\* scan; <<>> when the loop ends without a match
FirstMatch(msg, scan) ==
    LET hits == {i \in 1..Len(scan) : StartsWith(msg, scan[i])}
        first == CHOOSE i \in hits : \A j \in hits : i <= j
    IN  IF hits = {} THEN <<>> ELSE <<scan[first]>>

\* format: msg after the matched nickname, and a colon after it, are cut
StripReply(msg, nickname) ==
    LET cut == Strip(DropFirst(msg, Len(nickname)))
    IN  IF StartsWith(cut, <<":">>) THEN Strip(DropFirst(cut, 1)) ELSE cut

\* format: "if replied", the truth value of None or of a str
Truthy(replied) == replied # <<>> /\ replied[1] # <<>>

\* format: the locals at the return statement; matched is <<>> when the loop
\* found no nickname, replied is None or the matched nickname
FormatLocals(self, prev, scan, verbose) ==
    LET collapse == SameSpeaker(self, prev)
        context0 == IF collapse THEN <<>> ELSE SaidContext(self.nickname)
        timestamp == IF collapse THEN <<>> ELSE VerboseTimestamp(self, verbose)
        replied == FirstMatch(self.text, scan)
        msg == IF replied = <<>> THEN self.text
               ELSE StripReply(self.text, replied[1])
        context == IF Truthy(replied)
                   THEN RepliedContext(self.nickname, replied[1])
                   ELSE context0
    IN  [timestamp |-> timestamp, context |-> context, msg |-> msg,
         replied |-> replied]

\* Message.format: the string returned
Format(self, prev, scan, verbose) ==
    LET l == FormatLocals(self, prev, scan, verbose)
    IN  l.timestamp \o l.context \o l.msg

\* the orders in which iterating a set of strings can yield its elements
ScanOrders(set) ==
    {s \in [1..Cardinality(set) -> set] : \A x \in set : \E i \in DOMAIN s : s[i] = x}

----------------------------------------------------------------------------
(* Message.format called on its own, on drawn arguments *)

TextChars == {"a", ":", " "}
NickUniverse == {<<>>, <<"a">>, <<"a", "a">>}
SeqsUpTo(S, n) == UNION {[1..k -> S] : k \in 0..n}

Texts == SeqsUpTo(TextChars, MaxTextLen)

\* what a component of the cmd_fetch state is while cmd_fetch is not run
IdleFetch ==
    /\ args = [verbose |-> FALSE, output_type |-> "CHAT"]
    /\ cutoff_time = 0
    /\ pc = "idle"
    /\ exc = ""
    /\ day = 0
    /\ fetches = <<>>
    /\ messages = <<>>
    /\ nicknames = {}
    /\ order = <<>>
    /\ prev_message = <<>>
    /\ idx = 1
    /\ chat = <<>>
    /\ chat_file = <<>>
    /\ summary = <<>>
    /\ wav = FALSE
    /\ html = <<>>

IdleFormat ==
    /\ fmtSelf = Message(0, <<>>, <<>>)
    /\ fmtPrev = <<>>
    /\ fmtNicks = {}
    /\ fmtVerbose = FALSE
    /\ fmtCalls = <<>>

IdleParse ==
    /\ parseRow = [id |-> <<>>, th |-> <<>>, td |-> <<>>]
    /\ parseOut = <<>>

InitFormat ==
    /\ fmtSelf \in {Message(t, n, x) : t \in {1}, n \in NickUniverse, x \in Texts}
    /\ fmtPrev \in {<<>>} \cup {<<Message(0, n, <<>>)>> : n \in NickUniverse}
    /\ fmtNicks \in SUBSET NickUniverse
    /\ fmtVerbose \in BOOLEAN
    /\ fmtCalls = <<>>
    /\ IdleParse
    /\ IdleFetch

\* one call of format; the set is scanned in one of its iteration orders
FormatCall ==
    /\ Len(fmtCalls) < 2
    /\ \E scan \in ScanOrders(fmtNicks) :
         fmtCalls' = Append(fmtCalls,
                        [locals |-> FormatLocals(fmtSelf, fmtPrev, scan, fmtVerbose),
                         result |-> Format(fmtSelf, fmtPrev, scan, fmtVerbose)])
    /\ UNCHANGED <<fmtSelf, fmtPrev, fmtNicks, fmtVerbose, parseVars, fetchVars>>

NextFormat == FormatCall

SpecFormat == InitFormat /\ [][NextFormat]_vars

----------------------------------------------------------------------------
(* asc/message.py: parse_message_from_tr *)

\* end of the slice timestamp_str[1:20]
IdSliceEnd == 20

\* a <tr> element: id is <<>> when the row has no id attribute and <<s>> when
\* it is s; th and td are <<>> when the row has no th.nick, no td.text cell,
\* and <<s>> when the text inside the cell is s
Tr(id, th, td) == [id |-> id, th |-> th, td |-> td]

\* the outcome of a call that returns None
ReturnNone == [raised |-> "", value |-> <<>>]

\* the outcome of a call that returns the message m
ReturnMessage(m) == [raised |-> "", value |-> <<m>>]

\* the outcome of a call that raises the exception e
Raise(e) == [raised |-> e, value |-> <<>>]

\* parse_message_from_tr: the string handed to fromisoformat
TimestampStr(id) ==
    IF StartsWith(id, <<"t">>) THEN SliceFrom1(id, IdSliceEnd) ELSE id

\* parse_message_from_tr: "if not nick_td", "if not message_td"; find
\* returns None or a Tag, and a Tag is true whatever it holds
CellMissing(cell) == cell = <<>>

\* parse_message_from_tr
ParseMessageFromTr(tr) ==
    IF tr.id = <<>> \/ tr.id[1] = <<>> THEN ReturnNone
    ELSE LET timestamp == FromIsoFormat(TimestampStr(tr.id[1]))
         IN  IF timestamp = <<>> THEN Raise("ValueError")
             ELSE IF CellMissing(tr.th) THEN ReturnNone
             ELSE IF CellMissing(tr.td) THEN ReturnNone
             ELSE ReturnMessage(Message(timestamp[1], Strip(tr.th[1]), Strip(tr.td[1])))

----------------------------------------------------------------------------
(* parse_message_from_tr called on its own, on drawn rows *)

\* the id of a log row of time t
RowId(t) == <<"t">> \o DateTimeString(t, "T")

ParseIds ==
    {<<>>, <<<<>>>>, <<<<"t">>>>, <<<<"x">>>>, <<<<"t", "x">>>>}
        \cup {<<RowId(t)>> : t \in {9, 34}}
        \cup {<<RowId(t) \o <<".", "5">>>> : t \in {9, 34}}
        \cup {<<DateTimeString(t, "T")>> : t \in {9, 34}}

ParseCells == {<<>>, <<<<>>>>, <<<<" ">>>>, <<<<"a">>>>, <<<<" ", "a", ":", " ">>>>}

InitParse ==
    /\ parseRow \in {Tr(id, th, td) : id \in ParseIds, th \in ParseCells, td \in ParseCells}
    /\ parseOut = <<>>
    /\ IdleFormat
    /\ IdleFetch

ParseCall ==
    /\ parseOut = <<>>
    /\ parseOut' = <<ParseMessageFromTr(parseRow)>>
    /\ UNCHANGED <<parseRow, fmtVars, fetchVars>>

NextParse == ParseCall

SpecParse == InitParse /\ [][NextParse]_vars

----------------------------------------------------------------------------
(* asc/cli.py: cmd_fetch *)

\* the choices of --output-type
OutputTypes == {"CHAT", "SUMMARY", "SPEECH_SUMMARY"}

\* the default of --ignore-nicks, one nickname
IgnoreNicks == {<<"o">>}

\* get_messages without the test of the ignore list
AcceptedIgnoringNobody(parsed, cutoff, ignore_nicks) ==
    /\ parsed # <<>>
    /\ ~(parsed[1].timestamp < cutoff)

\* get_messages: the record passes the three "continue" tests of the loop;
\* parsed is the value parse_message_from_tr returned, None or a Message
Accepted(parsed, cutoff, ignore_nicks) ==
    /\ parsed # <<>>
    /\ ~(parsed[1].timestamp < cutoff)
    /\ parsed[1].nickname \notin ignore_nicks

\* get_messages: the for loop over the rows of one page, from the lists ms
\* and ns; raised names the exception a row's parse ended the loop with
RECURSIVE ProcessRows(_, _, _, _, _)
ProcessRows(rows, ms, ns, cutoff, ignore_nicks) ==
    IF rows = <<>> THEN [messages |-> ms, nicknames |-> ns, raised |-> ""]
    ELSE LET out == ParseMessageFromTr(Head(rows))
         IN  IF out.raised # ""
             THEN [messages |-> ms, nicknames |-> ns, raised |-> out.raised]
             ELSE IF Accepted(out.value, cutoff, ignore_nicks)
             THEN ProcessRows(Tail(rows), Append(ms, out.value[1]),
                              ns \cup {out.value[1].nickname}, cutoff, ignore_nicks)
             ELSE ProcessRows(Tail(rows), ms, ns, cutoff, ignore_nicks)

\* generate_chat with the second loop passing the verbose argument on
PlainFormatLeakingVerbose(message, prev, scan, verbose_arg) ==
    Format(message, prev, scan, verbose_arg)

\* generate_chat: the call of format of the second loop
PlainFormat(message, prev, scan, verbose_arg) ==
    Format(message, prev, scan, FALSE)

\* generate_chat: the call of format of the first loop
VerboseFormat(message, prev, scan, verbose_arg) ==
    Format(message, prev, scan, verbose_arg)

\* cmd_fetch: what follows generate_chat for the output type
AfterChat(output_type) == IF output_type = "CHAT" THEN "html" ELSE "summary"

\* cmd_fetch: what follows generate_summary for the output type
AfterSummary(output_type) == IF output_type = "SUMMARY" THEN "html" ELSE "speech"

\* timestamp.strftime("%Y-%m-%d")
DateString(t) == SubSeq(DateTimeString(t, "T"), 1, 10)

----------------------------------------------------------------------------
(* The archive: what fetch_meeting_log can answer *)

\* the rows a page of the day d may hold
PageRows(d) ==
    { Tr(<<RowId(d + 9)>>, <<<<"a">>>>, <<<<"a">>>>),
      Tr(<<RowId(d + 10)>>, <<<<"a">>>>, <<<<"a">>>>),
      Tr(<<RowId(d + 10)>>, <<<<"a", "a">>>>, <<<<"a", ":", " ", "a">>>>),
      Tr(<<RowId(d + 10)>>, <<<<"o">>>>, <<<<"a">>>>),
      Tr(<<<<"t", "x">>>>, <<<<"a">>>>, <<<<"a">>>>),
      Tr(<<>>, <<>>, <<>>) }

\* the rows served so far
RECURSIVE RowsServed(_)
RowsServed(fs) ==
    IF fs = <<>> THEN 0 ELSE Len(Head(fs).page) + RowsServed(Tail(fs))

\* the pages the archive may serve for the day d after the fetches fs
Pages(d, fs) == SeqsUpTo(PageRows(d), MaxRows - RowsServed(fs))

----------------------------------------------------------------------------
(* cmd_fetch, one step at a time *)

Init ==
    /\ args \in [verbose : BOOLEAN, output_type : OutputTypes]
    /\ cutoff_time \in {10, HoursPerDay + 10}
    /\ pc = "get_messages"
    /\ exc = ""
    /\ day = Midnight(cutoff_time)
    /\ fetches = <<>>
    /\ messages = <<>>
    /\ nicknames = {}
    /\ order = <<>>
    /\ prev_message = <<>>
    /\ idx = 1
    /\ chat = <<>>
    /\ chat_file = <<>>
    /\ summary = <<>>
    /\ wav = FALSE
    /\ html = <<>>
    /\ IdleFormat
    /\ IdleParse

Fetched(d, status, page) == [day |-> d, status |-> status, page |-> page]

\* get_messages: one turn of the while loop on a day whose page is served
GetMessagesPage ==
    /\ pc = "get_messages"
    /\ day < Midnight(cutoff_time) + MaxDays * HoursPerDay
    /\ \E page \in Pages(day, fetches) :
         LET r == ProcessRows(page, messages, nicknames, cutoff_time, IgnoreNicks)
         IN  /\ fetches' = Append(fetches, Fetched(day, 200, page))
             /\ messages' = r.messages
             /\ nicknames' = r.nicknames
             /\ IF r.raised = ""
                THEN /\ day' = day + HoursPerDay
                     /\ UNCHANGED <<pc, exc>>
                ELSE /\ pc' = "raised"
                     /\ exc' = r.raised
                     /\ UNCHANGED day
    /\ UNCHANGED <<args, cutoff_time, order, prev_message, idx, chat, chat_file,
                   summary, wav, html, fmtVars, parseVars>>

\* get_messages: the fetch raises HTTPError with status 404; the loop breaks,
\* get_messages returns and generate_chat starts
GetMessagesNotFound ==
    /\ pc = "get_messages"
    /\ fetches' = Append(fetches, Fetched(day, 404, <<>>))
    /\ pc' = "chat_verbose"
    /\ order' \in ScanOrders(nicknames)
    /\ prev_message' = <<>>
    /\ idx' = 1
    /\ UNCHANGED <<args, cutoff_time, exc, day, messages, nicknames, chat, chat_file,
                   summary, wav, html, fmtVars, parseVars>>

\* get_messages: the fetch raises HTTPError with another status
GetMessagesHttpError ==
    /\ pc = "get_messages"
    /\ fetches' = Append(fetches, Fetched(day, 500, <<>>))
    /\ pc' = "raised"
    /\ exc' = "HTTPError"
    /\ UNCHANGED <<args, cutoff_time, day, messages, nicknames, order, prev_message,
                   idx, chat, chat_file, summary, wav, html, fmtVars, parseVars>>

\* generate_chat: one turn of the first loop
GenerateChatVerbose ==
    /\ pc = "chat_verbose"
    /\ idx <= Len(messages)
    /\ LET m == VerboseFormat(messages[idx], prev_message, order, args.verbose)
       IN  /\ chat_file' = chat_file \o m
           /\ chat' = chat \o m
    /\ prev_message' = <<messages[idx]>>
    /\ idx' = idx + 1
    /\ UNCHANGED <<args, cutoff_time, pc, exc, day, fetches, messages, nicknames,
                   order, summary, wav, html, fmtVars, parseVars>>

\* generate_chat: the first loop is over; context.chat and prev_message are
\* reset for the second
GenerateChatReset ==
    /\ pc = "chat_verbose"
    /\ idx > Len(messages)
    /\ chat' = <<>>
    /\ prev_message' = <<>>
    /\ idx' = 1
    /\ pc' = "chat_plain"
    /\ UNCHANGED <<args, cutoff_time, exc, day, fetches, messages, nicknames, order,
                   chat_file, summary, wav, html, fmtVars, parseVars>>

\* generate_chat: one turn of the second loop
GenerateChatPlain ==
    /\ pc = "chat_plain"
    /\ idx <= Len(messages)
    /\ chat' = chat \o PlainFormat(messages[idx], prev_message, order, args.verbose)
    /\ prev_message' = <<messages[idx]>>
    /\ idx' = idx + 1
    /\ UNCHANGED <<args, cutoff_time, pc, exc, day, fetches, messages, nicknames,
                   order, chat_file, summary, wav, html, fmtVars, parseVars>>

\* generate_chat returns
GenerateChatReturn ==
    /\ pc = "chat_plain"
    /\ idx > Len(messages)
    /\ pc' = AfterChat(args.output_type)
    /\ UNCHANGED <<args, cutoff_time, exc, day, fetches, messages, nicknames, order,
                   prev_message, idx, chat, chat_file, summary, wav, html,
                   fmtVars, parseVars>>

\* generate_summary: the model's answer is accumulated
GenerateSummary ==
    /\ pc = "summary"
    /\ summary' = <<"s">>
    /\ pc' = AfterSummary(args.output_type)
    /\ UNCHANGED <<args, cutoff_time, exc, day, fetches, messages, nicknames, order,
                   prev_message, idx, chat, chat_file, wav, html, fmtVars, parseVars>>

\* generate_speech_summary
GenerateSpeechSummary ==
    /\ pc = "speech"
    /\ wav' = TRUE
    /\ pc' = "html"
    /\ UNCHANGED <<args, cutoff_time, exc, day, fetches, messages, nicknames, order,
                   prev_message, idx, chat, chat_file, summary, html,
                   fmtVars, parseVars>>

\* generate_html_summary: the heading takes its date from context.messages[0]
GenerateHtmlSummary ==
    /\ pc = "html"
    /\ IF messages = <<>>
       THEN /\ pc' = "raised"
            /\ exc' = "IndexError"
            /\ UNCHANGED html
       ELSE /\ html' = <<DateString(messages[1].timestamp)>>
            /\ pc' = "done"
            /\ UNCHANGED exc
    /\ UNCHANGED <<args, cutoff_time, day, fetches, messages, nicknames, order,
                   prev_message, idx, chat, chat_file, summary, wav,
                   fmtVars, parseVars>>

Next ==
    \/ GetMessagesPage
    \/ GetMessagesNotFound
    \/ GetMessagesHttpError
    \/ GenerateChatVerbose
    \/ GenerateChatReset
    \/ GenerateChatPlain
    \/ GenerateChatReturn
    \/ GenerateSummary
    \/ GenerateSpeechSummary
    \/ GenerateHtmlSummary

Spec == Init /\ [][Next]_vars

----------------------------------------------------------------------------
(* Claims about Message.format, under SpecFormat *)

\* the calls of format made so far
Calls == {fmtCalls[i] : i \in 1..Len(fmtCalls)}

\* C1: when the previous record has the nickname of the current one, the
\* string format returns has no timestamp prefix and no "said" context line:
\* it is the body alone when the scan matched no nickname, and the
\* "replied to" line of the matched nickname followed by the body when it
\* matched one.
C1_CollapseUnlessReply ==
    \A c \in Calls :
        SameSpeaker(fmtSelf, fmtPrev) =>
            c.result = (IF c.locals.replied # <<>>
                        THEN RepliedContext(fmtSelf.nickname, c.locals.replied[1])
                        ELSE <<>>) \o c.locals.msg

\* C2: when the text is n, ": " and a rest, for a nickname n of the set, the
\* body format renders is the rest, trimmed, and the context line is
\* "replied to n", whatever else the set holds.  Stated for the sets the data
\* model admits, those of non-empty nicknames.
C2_ReplyStripsNickAndColon ==
    \A c \in Calls : \A n \in fmtNicks :
        (<<>> \notin fmtNicks /\ StartsWith(fmtSelf.text, n \o <<":", " ">>)) =>
            /\ c.locals.msg = Strip(DropFirst(fmtSelf.text, Len(n) + 2))
            /\ c.locals.context = RepliedContext(fmtSelf.nickname, n)

\* C3: two calls of format with the same record, previous record, nickname
\* set and verbose flag return the same string, whatever order the set is
\* scanned in.  Stated for the sets the data model admits, those of non-empty
\* nicknames.
C3_FormatIsPure ==
    (Len(fmtCalls) = 2 /\ <<>> \notin fmtNicks) =>
        fmtCalls[1].result = fmtCalls[2].result

\* C6: with verbose=False the string format returns is the context line
\* followed by the body, and does not begin with the timestamp line.
C6_NoTimestampUnlessVerbose ==
    \A c \in Calls :
        ~fmtVerbose =>
            /\ c.result = c.locals.context \o c.locals.msg
            /\ ~StartsWith(c.result, <<"\n">> \o StrTime(fmtSelf.timestamp))

\* C6 witness: a non-verbose call that did not collapse the context line, one
\* where verbose=True would have put the timestamp first.
C6_Witness ==
    /\ fmtCalls # <<>>
    /\ ~fmtVerbose
    /\ ~SameSpeaker(fmtSelf, fmtPrev)
    /\ fmtPrev # <<>>
    /\ fmtCalls[1].locals.replied # <<>>
    /\ fmtCalls[1].locals.msg # <<>>

\* the "replied to" context lines format can write for the record self
ReplyLines(self, ns) == {RepliedContext(self.nickname, n) : n \in ns}

\* C11: when the string format returns carries no "replied to" context line,
\* its body is the text of the record verbatim: the string is the timestamp
\* prefix, the context line and the text.  Stated for the texts the parser
\* builds, those without surrounding whitespace.
C11_BodyVerbatimUnlessReply ==
    \A c \in Calls :
        (Strip(fmtSelf.text) = fmtSelf.text
            /\ c.locals.context \notin ReplyLines(fmtSelf, fmtNicks)) =>
            /\ c.locals.msg = fmtSelf.text
            /\ c.result = c.locals.timestamp \o c.locals.context \o fmtSelf.text

----------------------------------------------------------------------------
(* Claims about parse_message_from_tr, under SpecParse *)

\* the rows C8 calls malformed: no id, an id that does not start with the
\* marker character or whose date and time do not parse, no speaker cell or
\* no text cell
Malformed(tr) ==
    \/ tr.id = <<>>
    \/ ~StartsWith(tr.id[1], <<"t">>)
    \/ FromIsoFormat(SliceFrom1(tr.id[1], IdSliceEnd)) = <<>>
    \/ tr.th = <<>>
    \/ tr.td = <<>>

\* C8: parse_message_from_tr raises on no row; it returns None on a
\* malformed row and otherwise a Message with a non-empty nickname.
C8_ParseTotalAndComplete ==
    parseOut # <<>> =>
        /\ parseOut[1].raised = ""
        /\ Malformed(parseRow) => parseOut[1].value = <<>>
        /\ ~Malformed(parseRow) =>
               /\ parseOut[1].value # <<>>
               /\ parseOut[1].value[1].nickname # <<>>

----------------------------------------------------------------------------
(* Claims about cmd_fetch, under Spec *)

\* generate_chat has returned
ChatGenerated ==
    \/ pc \in {"summary", "speech", "html", "done"}
    \/ pc = "raised" /\ exc = "IndexError"

\* the record before the i-th one, None before the first
PrevOf(ms, i) == IF i = 1 THEN <<>> ELSE <<ms[i - 1]>>

\* the structural markers a rendering may hold: the context lines of the
\* nicknames ns
Markers(ns) ==
    {SaidContext(n) : n \in ns} \cup {RepliedContext(n, o) : n \in ns, o \in ns}

\* the markers found in s at position i
MarkersAt(s, i, ns) ==
    {m \in Markers(ns) : i + Len(m) - 1 <= Len(s) /\ SubSeq(s, i, i + Len(m) - 1) = m}

\* s split on its markers: the text after each marker, up to the next one,
\* after the text before the first marker if there is any
SplitOnMarkers(s, ns) ==
    LET starts == {i \in 1..Len(s) : MarkersAt(s, i, ns) # {}}
        after(i) == i + Len(CHOOSE m \in MarkersAt(s, i, ns) : TRUE)
        next(i) == IF \E j \in starts : j > i
                   THEN CHOOSE j \in starts : j > i /\ \A k \in starts : k > i => j <= k
                   ELSE Len(s) + 1
        nth[k \in 1..Cardinality(starts)] ==
            CHOOSE i \in starts : Cardinality({j \in starts : j <= i}) = k
        lead == SubSeq(s, 1, next(0) - 1)
        pieces == [k \in 1..Cardinality(starts) |->
                      SubSeq(s, after(nth[k]), next(nth[k]) - 1)]
    IN  IF lead = <<>> THEN pieces ELSE <<lead>> \o pieces

\* C4: the string generate_chat builds for summarization, split on its
\* context lines, gives one body per record, in order, each the text of the
\* record less its reply prefix.
C4_RoundTrip ==
    ChatGenerated =>
        SplitOnMarkers(chat, nicknames) =
            [i \in 1..Len(messages) |->
                FormatLocals(messages[i], PrevOf(messages, i), order, FALSE).msg]

\* the concatenation of the non-verbose renderings of ms[1..k]
RECURSIVE PlainRendering(_, _, _)
PlainRendering(ms, k, scan) ==
    IF k = 0 THEN <<>>
    ELSE PlainRendering(ms, k - 1, scan) \o Format(ms[k], PrevOf(ms, k), scan, FALSE)

\* C5: after generate_chat, context.chat is the concatenation, in input
\* order, of the verbose=False renderings of the records, each against the
\* record before it; it is empty when there is no record.
C5_ChatIsPlainConcatenation ==
    ChatGenerated =>
        /\ chat = PlainRendering(messages, Len(messages), order)
        /\ messages = <<>> => chat = <<>>

\* C5 witness: generate_chat has returned from a verbose run over two
\* records, whose file rendering differs from context.chat.
C5_Witness ==
    /\ ChatGenerated
    /\ args.verbose
    /\ Len(messages) >= 2
    /\ chat # chat_file
    /\ chat # <<>>

\* get_messages has returned (its loop broke on a 404)
FetchReturned ==
    fetches # <<>> /\ fetches[Len(fetches)].status = 404

\* C7: when get_messages accepted no record, cmd_fetch ends without raising,
\* whatever the output type.
C7_NoMessagesNoRaise ==
    (FetchReturned /\ messages = <<>>) => pc # "raised"

\* the nicknames of the records of ms
NicknamesOf(ms) == {ms[i].nickname : i \in 1..Len(ms)}

\* generate_chat is running: format is called from these positions only
Formatting == pc \in {"chat_verbose", "chat_plain"}

\* C9, at each call of format: the fetch stage has finished, the nickname set
\* is the set of the nicknames of the records, scanned in an order of that
\* set, and every record passed the time and ignore filters.
C9_AtFormat ==
    Formatting =>
        /\ FetchReturned
        /\ nicknames = NicknamesOf(messages)
        /\ order \in ScanOrders(nicknames)
        /\ \A i \in 1..Len(messages) :
              /\ messages[i].timestamp >= cutoff_time
              /\ messages[i].nickname \notin IgnoreNicks

\* C9, between the calls of format: neither context.messages nor
\* context.nicknames changes, and nothing more is fetched.
C9_Stable ==
    [][Formatting => UNCHANGED <<messages, nicknames, order, fetches>>]_vars

\* C9: the nickname set is complete before formatting begins and fixed while
\* it lasts.
C9_NicknamesBeforeFormat == []C9_AtFormat /\ C9_Stable

\* the rows served so far, page after page
RECURSIVE RowsOf(_)
RowsOf(fs) == IF fs = <<>> THEN <<>> ELSE Head(fs).page \o RowsOf(Tail(fs))

\* C9 witness: the second loop of generate_chat has formatted a record, of a
\* run whose archive held a row the filters rejected.
C9_Witness ==
    /\ pc = "chat_plain"
    /\ idx > 1
    /\ \E i \in 1..Len(RowsOf(fetches)) :
          LET out == ParseMessageFromTr(RowsOf(fetches)[i])
          IN  /\ out.value # <<>>
              /\ ~Accepted(out.value, cutoff_time, IgnoreNicks)

\* the records get_messages is to accept from the rows served
AcceptedOf(fs) ==
    LET parsed == [i \in 1..Len(RowsOf(fs)) |-> ParseMessageFromTr(RowsOf(fs)[i])]
        kept == SelectSeq(parsed,
                    LAMBDA out : Accepted(out.value, cutoff_time, IgnoreNicks))
    IN  [i \in 1..Len(kept) |-> kept[i].value[1]]

\* C10: the days are fetched in increasing order, one day apart, from
\* midnight of the cutoff's day; the loop ends only on a fetch that fails, it
\* returns on a 404 and raises on another status; on return context.messages
\* holds the accepted records of the pages served, in fetch order.
C10_Pagination ==
    /\ \A i \in 1..Len(fetches) :
          fetches[i].day = Midnight(cutoff_time) + (i - 1) * HoursPerDay
    /\ \A i \in 1..(Len(fetches) - 1) : fetches[i].status = 200
    /\ pc # "get_messages" =>
          /\ fetches # <<>>
          /\ fetches[Len(fetches)].status # 200
          /\ fetches[Len(fetches)].status = 404 => messages = AcceptedOf(fetches)
          /\ fetches[Len(fetches)].status # 404 => pc = "raised" /\ exc = "HTTPError"

====
